---- MODULE Spec2Model ----
(***************************************************************************)
(* Model of the HROne e-commerce API (src/main.py, src/database.py):       *)
(* the products and orders collections of the document store and the four  *)
(* request handlers create_product, list_products, create_order and        *)
(* get_list_of_orders.                                                     *)
(*                                                                         *)
(* Texts (identifiers in their text form, names, page offsets) are         *)
(* sequences of one-character strings, so that parsing and formatting are  *)
(* computed and not assumed.  ObjectIds are the integers their hex text    *)
(* denotes; the 24 hex characters of a real ObjectId are scaled down to    *)
(* OidHexLen characters.  Prices are integers (exactly representable       *)
(* floats).                                                                *)
(***************************************************************************)
EXTENDS Integers, Sequences, FiniteSets, TLC

\* ---------------------------------------------------------------- bounds
MaxProducts == 2      \* products ever created
MaxOrders   == 2      \* orders ever inserted
MaxItems    == 2      \* items of one create_order request
MaxUnits    == 2      \* the qty of the items of one request add up to at most MaxUnits
MaxTime     == 1      \* the clock runs over 0..MaxTime
MaxLimit    == 2      \* requested limit is in 0..MaxLimit (0 is out of range)
MaxOffset   == 1      \* requested offset is in 0..MaxOffset
MaxPending  == 1      \* create_order requests between their find and their insert
OidHexLen   == 1      \* hex characters of an identifier's text form

\* ------------------------------------------------------ program constants
LimitGe  == 1         \* Query(10, ge=1, le=100)
LimitLe  == 100
OffsetGe == 0         \* Query(0, ge=0)

Users == {"u1", "u2"}

\* ------------------------------------------------------------- sequences
Min(a, b) == IF a <= b THEN a ELSE b

Range(s) == {s[i] : i \in 1..Len(s)}

\* All orderings of the finite set S, as sequences without repetition.
Perms(S) ==
  {f \in [1..Cardinality(S) -> S] : \A i, j \in 1..Cardinality(S) : f[i] = f[j] => i = j}

\* Sequences over S of length 0..n.
SeqsUpTo(S, n) == UNION {[1..k -> S] : k \in 0..n}

RECURSIVE Concat(_)
\* Flattening of a sequence of sequences (a nested comprehension / $unwind).
Concat(ss) == IF ss = <<>> THEN <<>> ELSE Head(ss) \o Concat(Tail(ss))

RECURSIVE SumSeq(_)
\* Python's sum() over a sequence of numbers.
SumSeq(s) == IF s = <<>> THEN 0 ELSE Head(s) + SumSeq(Tail(s))

\* ------------------------------------------------- text <-> value conversions
HexLower == <<"0","1","2","3","4","5","6","7","8","9","a","b","c","d","e","f">>
HexUpper == <<"0","1","2","3","4","5","6","7","8","9","A","B","C","D","E","F">>

\* Value of one hex character, either case; -1 when it is not a hex character
\* (bytes.fromhex accepts both cases).
HexVal(c) ==
  IF \E i \in 1..16 : HexLower[i] = c
    THEN (CHOOSE i \in 1..16 : HexLower[i] = c) - 1
    ELSE IF \E i \in 1..16 : HexUpper[i] = c
      THEN (CHOOSE i \in 1..16 : HexUpper[i] = c) - 1
      ELSE -1

\* ObjectId.is_valid(pid) for a str: the right length and hex throughout.
ObjectId_is_valid(t) ==
  /\ Len(t) = OidHexLen
  /\ \A i \in 1..Len(t) : HexVal(t[i]) >= 0

RECURSIVE HexParse(_, _)
HexParse(t, acc) ==
  IF t = <<>> THEN acc ELSE HexParse(Tail(t), acc * 16 + HexVal(Head(t)))

\* ObjectId(pid): the identifier a valid text denotes.
ObjectId(t) == HexParse(t, 0)

RECURSIVE HexFormat(_, _)
HexFormat(v, w) ==
  IF w = 0 THEN <<>> ELSE HexFormat(v \div 16, w - 1) \o <<HexLower[(v % 16) + 1]>>

\* str(oid) / $toString: the canonical text of an identifier, lowercase hex.
OidStr(oid) == HexFormat(oid, OidHexLen)

RECURSIVE DecDigits(_)
DecDigits(n) ==
  IF n < 10 THEN <<HexLower[n + 1]>>
  ELSE DecDigits(n \div 10) \o <<HexLower[(n % 10) + 1]>>

\* str(n) of a Python int: decimal text, with a sign when negative.
IntStr(n) == IF n < 0 THEN <<"-">> \o DecDigits(0 - n) ELSE DecDigits(n)

\* The uppercase spelling of a hex text (an input a client may send).
UpperHex(t) == [i \in 1..Len(t) |-> HexUpper[HexVal(t[i]) + 1]]

\* ------------------------------------------------------------ request inputs
Shirt == <<"S","h","i","r","t">>
Hat   == <<"h","a","t">>

\* Bodies of POST /products (ProductCreate: name, price, sizes).
ProductInputs ==
  { [name |-> Shirt, price |-> 100, sizes |-> <<[size |-> "M", quantity |-> 5]>>],
    [name |-> Hat,   price |-> 250, sizes |-> <<>>] }

\* The store-generated identifiers: the k-th product, the k-th order.
ProductOid(k) == 9 + k
OrderOid(k)   == k

\* A text of the right length that is not hex.
MalformedId == [i \in 1..OidHexLen |-> "g"]

\* productId texts a client may send: the canonical text of every identifier
\* a product can have, the uppercase spelling of the first, and a malformed
\* text.
PidTexts ==
  {OidStr(ProductOid(k)) : k \in 1..MaxProducts}
    \cup {UpperHex(OidStr(ProductOid(1)))}
    \cup {MalformedId}

\* Bodies of POST /orders (OrderCreate: userId, items of OrderItem).
OrderItems == [productId : PidTexts, qty : 1..MaxUnits]
Units(items) == SumSeq([i \in 1..Len(items) |-> items[i].qty])
OrderInputs ==
  [userId : Users,
   items : {items \in SeqsUpTo(OrderItems, MaxItems) : Units(items) <= MaxUnits}]

\* ------------------------------------------------------------------- state
VARIABLES
  products,     \* the products collection, in insertion (natural) order
  orders,       \* the orders collection, in insertion (natural) order
  product_seq,  \* number of products ever inserted (identifier generation)
  pending,      \* order_dict of the create_order handlers suspended at `await insert_one`
  now,          \* the wall clock read by datetime.utcnow()
  resp          \* the handler step just taken: request, store calls, response

vars == <<products, orders, product_seq, pending, now, resp>>

Init ==
  /\ products = <<>>
  /\ orders = <<>>
  /\ product_seq = 0
  /\ pending = <<>>
  /\ now = 0
  /\ resp = [op |-> "none"]

\* resp is the observation of one handler step: the handler that has just
\* run, the store calls it made and the response it returned (for a rejected
\* create_order also the productId texts it had read from the request).  One
\* step is observed at a time: the response is sent (return_response) before
\* the next step is observed.  Handler steps do not read resp, so the states of the
\* store and of the suspended handlers are those of the unobserved program.
Idle == resp.op = "none"

\* ------------------------------------------------------- pagination metadata
\* prev_offset if prev_offset >= 0 else -1, then str().
PreviousText(prev_offset) == IntStr(IF prev_offset >= 0 THEN prev_offset ELSE -1)

\* Variant: previous computed from the number of documents returned.
Page_PreviousFromReturned(returned, limit, offset) ==
  [ limit    |-> returned,
    next     |-> IntStr(offset + returned),
    previous |-> PreviousText(offset - returned) ]

\* The "page" object both listings return.
Page(returned, limit, offset) ==
  [ limit    |-> returned,
    next     |-> IntStr(offset + returned),
    previous |-> PreviousText(offset - limit) ]

\* Query(..., ge=1, le=100) and Query(..., ge=0).
ValidPaging(limit, offset) ==
  /\ limit >= LimitGe
  /\ limit <= LimitLe
  /\ offset >= OffsetGe

\* Variant: the skip is not applied.
SkipStage_NoSkip(docs, n) == docs

\* cursor.skip(n) / {"$skip": n}
SkipStage(docs, n) == SubSeq(docs, n + 1, Len(docs))

\* cursor.limit(n) / {"$limit": n} / to_list(length=n)
LimitStage(docs, n) == SubSeq(docs, 1, Min(n, Len(docs)))

\* ------------------------------------------------------------ POST /products
create_product(product) ==
  /\ Idle
  /\ product_seq < MaxProducts
  /\ LET doc == [_id   |-> ProductOid(product_seq + 1),
                 name  |-> product.name,
                 price |-> product.price,
                 sizes |-> product.sizes]
     IN /\ products' = Append(products, doc)
        /\ product_seq' = product_seq + 1
        /\ resp' = [op |-> "create_product", status |-> 201,
                    calls |-> <<"products.insert_one">>,
                    content |-> [id |-> OidStr(doc._id)]]
  /\ UNCHANGED <<orders, pending, now>>

\* -------------------------------------------------------------- POST /orders
\* Variant: the find without its filter.
FindIn_NoFilter(coll, ids) == SubSeq(coll, 1, Min(Len(ids), Len(coll)))

\* product_collection.find({"_id": {"$in": ids}}).to_list(length=len(ids)):
\* every stored product whose _id is one of ids, once each.
FindIn(coll, ids) ==
  LimitStage(SelectSeq(coll, LAMBDA p : p._id \in Range(ids)), Len(ids))

\* Variant: not found only when the find returned nothing at all.
NotFound_WhenNoneFound(found, product_ids_str) ==
  Len(found) = 0 /\ Len(product_ids_str) # 0

\* len(products) != len(product_ids_str)
NotFound(found, product_ids_str) == Len(found) # Len(product_ids_str)

\* price_map.get(pid, 0) with price_map = {str(p["_id"]): p["price"]}
PriceMapGet(found, pid) ==
  IF \E i \in 1..Len(found) : OidStr(found[i]._id) = pid
    THEN found[CHOOSE i \in 1..Len(found) : OidStr(found[i]._id) = pid].price
    ELSE 0

\* sum(price_map.get(item["productId"], 0) * item["qty"] for item in items)
TotalAmount(found, items) ==
  SumSeq([i \in 1..Len(items) |-> PriceMapGet(found, items[i].productId) * items[i].qty])

\* Lines 86-107: validation, the find round-trip, the 404 check, the total and
\* the timestamp; the handler then suspends at `await insert_one`.
create_order_check(order) ==
  LET product_ids_str == [i \in 1..Len(order.items) |-> order.items[i].productId]
  IN
  /\ Idle
  /\ IF ~ (\A i \in 1..Len(product_ids_str) : ObjectId_is_valid(product_ids_str[i]))
     THEN /\ resp' = [op |-> "create_order", status |-> 400,
                      product_ids_str |-> product_ids_str, calls |-> <<>>]
          /\ UNCHANGED <<products, orders, product_seq, pending, now>>
     ELSE
       LET product_ids == [i \in 1..Len(product_ids_str) |-> ObjectId(product_ids_str[i])]
           found == FindIn(products, product_ids)
       IN
       IF NotFound(found, product_ids_str)
       THEN /\ resp' = [op |-> "create_order", status |-> 404,
                        product_ids_str |-> product_ids_str,
                        calls |-> <<"products.find">>]
            /\ UNCHANGED <<products, orders, product_seq, pending, now>>
       ELSE
         /\ Len(pending) < MaxPending
         /\ Len(orders) + Len(pending) < MaxOrders
         /\ \E t \in now..Min(now + 1, MaxTime) :
              /\ now' = t
              /\ pending' = Append(pending,
                   [ userId |-> order.userId,
                     items |-> [i \in 1..Len(order.items) |->
                                  [productId |-> ObjectId(order.items[i].productId),
                                   qty |-> order.items[i].qty]],
                     total |-> TotalAmount(found, order.items),
                     created_at |-> t ])
         /\ UNCHANGED <<products, orders, product_seq, resp>>

\* Lines 109-110: the insert round-trip and the 201 response.
create_order_insert(i) ==
  /\ Idle
  /\ i \in 1..Len(pending)
  /\ LET doc == [_id |-> OrderOid(Len(orders) + 1)] @@ pending[i]
     IN /\ orders' = Append(orders, doc)
        /\ resp' = [op |-> "create_order", status |-> 201,
                    calls |-> <<"products.find", "orders.insert_one">>,
                    content |-> [id |-> OidStr(doc._id)]]
  /\ pending' = [j \in 1..(Len(pending) - 1) |->
                   IF j < i THEN pending[j] ELSE pending[j + 1]]
  /\ UNCHANGED <<products, product_seq, now>>

\* ------------------------------------------------------------- GET /products
UpperLetters == <<"A","B","C","D","E","F","G","H","I","J","K","L","M",
                  "N","O","P","Q","R","S","T","U","V","W","X","Y","Z">>
LowerLetters == <<"a","b","c","d","e","f","g","h","i","j","k","l","m",
                  "n","o","p","q","r","s","t","u","v","w","x","y","z">>

\* Case folding of one character ("$options": "i").
Fold(c) ==
  IF \E i \in 1..26 : UpperLetters[i] = c
    THEN LowerLetters[CHOOSE i \in 1..26 : UpperLetters[i] = c]
    ELSE c

FoldText(t) == [i \in 1..Len(t) |-> Fold(t[i])]

\* {"$regex": pattern, "$options": "i"} for a pattern of literal characters:
\* the pattern occurs somewhere in the text, case ignored.
RegexMatchI(pattern, text) ==
  \E start \in 1..(Len(text) - Len(pattern) + 1) :
    FoldText(SubSeq(text, start, start + Len(pattern) - 1)) = FoldText(pattern)

\* The query list_products builds: `if name:` and `if size:` skip None and "".
ProductQuery(name, size, p) ==
  /\ (name # <<>>) => RegexMatchI(name, p.name)
  /\ (size # "") => \E i \in 1..Len(p.sizes) : p.sizes[i].size = size

\* ProductList(id=str(p["_id"]), name=p["name"], price=p["price"]).dict()
FormatProducts(docs) ==
  [i \in 1..Len(docs) |->
     [id |-> OidStr(docs[i]._id), name |-> docs[i].name, price |-> docs[i].price]]

NameFilters == {<<>>, <<"s","H">>}
SizeFilters == {"", "M"}

list_products(name, size, limit, offset) ==
  /\ Idle
  /\ IF ~ ValidPaging(limit, offset)
     THEN resp' = [op |-> "list_products", status |-> 422, calls |-> <<>>]
     ELSE
       LET found == LimitStage(
                      SkipStage(SelectSeq(products,
                                          LAMBDA p : ProductQuery(name, size, p)),
                                offset),
                      limit)
           formatted_products == FormatProducts(LimitStage(found, limit))
       IN resp' = [op |-> "list_products", status |-> 200,
                   calls |-> <<"products.find">>,
                   content |-> [data |-> formatted_products,
                                page |-> Page(Len(formatted_products), limit, offset)]]
  /\ UNCHANGED <<products, orders, product_seq, pending, now>>

\* ------------------------------------------------------ GET /orders/{user_id}
\* Variant: no $match stage.
MatchStage_AllUsers(coll, user_id) == coll

\* {"$match": {"userId": user_id}}
MatchStage(coll, user_id) == SelectSeq(coll, LAMBDA o : o.userId = user_id)

\* {"$sort": {"created_at": -1}}: every ordering of the documents that is
\* non-increasing in created_at; the store does not fix the order of documents
\* with equal keys, and may order them differently from one run to the next.
SortStage(docs) ==
  {s \in Perms(Range(docs)) :
     \A i \in 1..(Len(s) - 1) : s[i].created_at >= s[i + 1].created_at}

\* {"$unwind": "$items"}: one row per item, none for an empty items array.
UnwindItems(docs) ==
  Concat([d \in 1..Len(docs) |->
            [i \in 1..Len(docs[d].items) |->
               [docs[d] EXCEPT !.items = docs[d].items[i]]]])

\* Variant: the join pairs every row with every product.
LookupStage_AllProducts(rows, prods) ==
  [r \in 1..Len(rows) |-> [productInfo |-> prods] @@ rows[r]]

\* {"$lookup": {from: "products", localField: "items.productId",
\*              foreignField: "_id", as: "productInfo"}}
LookupStage(rows, prods) ==
  [r \in 1..Len(rows) |->
     [productInfo |-> SelectSeq(prods, LAMBDA p : p._id = rows[r].items.productId)]
       @@ rows[r]]

\* {"$unwind": "$productInfo"}: one row per joined product, none when the
\* join found nothing.
UnwindProductInfo(rows) ==
  Concat([r \in 1..Len(rows) |->
            [j \in 1..Len(rows[r].productInfo) |->
               [rows[r] EXCEPT !.productInfo = rows[r].productInfo[j]]]])

\* One output document of $group: total is $first, items is $push in row order.
GroupOf(rows, key) ==
  LET mine == SelectSeq(rows, LAMBDA r : r._id = key)
  IN [ _id   |-> key,
       total |-> mine[1].total,
       items |-> [i \in 1..Len(mine) |->
                    [qty |-> mine[i].items.qty,
                     productDetails |->
                       [id   |-> OidStr(mine[i].productInfo._id),
                        name |-> mine[i].productInfo.name]]] ]

\* {"$group": {"_id": "$_id", ...}}: one document per distinct _id; $group
\* does not order its output documents, so every ordering is possible.
GroupStage(rows) ==
  {[i \in 1..Len(keys) |-> GroupOf(rows, keys[i])] :
     keys \in Perms({rows[r]._id : r \in 1..Len(rows)})}

\* {"$project": {"_id": 0, "id": {"$toString": "$_id"}, "total": 1, "items": 1}}
ProjectStage(groups) ==
  [g \in 1..Len(groups) |->
     [id |-> OidStr(groups[g]._id), total |-> groups[g].total,
      items |-> groups[g].items]]

\* The pipeline up to $group, for one outcome of $sort.
JoinedRows(sorted, prods, limit, offset) ==
  UnwindProductInfo(
    LookupStage(UnwindItems(LimitStage(SkipStage(sorted, offset), limit)), prods))

\* A client may repeat the listing whose response it has just received.
Repeating(user_id, limit, offset) ==
  /\ resp.op = "list_orders"
  /\ resp.status = 200
  /\ resp.req = [user_id |-> user_id, limit |-> limit, offset |-> offset]

get_list_of_orders(user_id, limit, offset) ==
  /\ Idle \/ Repeating(user_id, limit, offset)
  /\ IF ~ ValidPaging(limit, offset)
     THEN resp' = [op |-> "list_orders", status |-> 422, calls |-> <<>>]
     ELSE
       \E sorted \in SortStage(MatchStage(orders, user_id)) :
         \E grouped \in GroupStage(JoinedRows(sorted, products, limit, offset)) :
           LET data == LimitStage(ProjectStage(grouped), limit)
           IN resp' = [op |-> "list_orders", status |-> 200,
                       req |-> [user_id |-> user_id, limit |-> limit,
                                offset |-> offset],
                       calls |-> <<"orders.aggregate">>,
                       content |-> [data |-> data,
                                    page |-> Page(Len(data), limit, offset)]]
  /\ UNCHANGED <<products, orders, product_seq, pending, now>>

\* ------------------------------------------------------ the document store
\* The collections live in an external MongoDB that other clients reach too:
\* a product document is removed by direct store manipulation.
store_delete_product(i) ==
  /\ Idle
  /\ i \in 1..Len(products)
  /\ products' = [j \in 1..(Len(products) - 1) |->
                    IF j < i THEN products[j] ELSE products[j + 1]]
  /\ UNCHANGED <<orders, product_seq, pending, now, resp>>

\* `return JSONResponse(...)` / `raise HTTPException(...)`: the response of the
\* observed step has been sent.
return_response ==
  /\ ~ Idle
  /\ resp' = [op |-> "none"]
  /\ UNCHANGED <<products, orders, product_seq, pending, now>>

\* ------------------------------------------------------------ specifications
Limits  == 0..MaxLimit
Offsets == 0..MaxOffset

ApiNext ==
  \/ \E product \in ProductInputs : create_product(product)
  \/ \E name \in NameFilters, size \in SizeFilters, limit \in Limits,
        offset \in Offsets : list_products(name, size, limit, offset)
  \/ \E order \in OrderInputs : create_order_check(order)
  \/ \E i \in 1..MaxPending : create_order_insert(i)
  \/ \E user_id \in Users, limit \in Limits, offset \in Offsets :
        get_list_of_orders(user_id, limit, offset)
  \/ return_response

Next == ApiNext

\* The API alone: every state is reached through the four endpoints.
Spec == Init /\ [][Next]_vars

NextStore ==
  \/ ApiNext
  \/ \E i \in 1..MaxProducts : store_delete_product(i)

\* The API together with direct manipulation of the products collection.
SpecStore == Init /\ [][NextStore]_vars

TypeOK ==
  /\ Len(products) <= MaxProducts
  /\ Len(orders) <= MaxOrders
  /\ Len(pending) <= MaxPending
  /\ now \in 0..MaxTime

\* ================================================================ properties
\* What the properties say of texts and of the store is stated here without
\* the handlers' own helpers.

HexChars == {"0","1","2","3","4","5","6","7","8","9",
             "a","b","c","d","e","f","A","B","C","D","E","F"}
DecChars == <<"0","1","2","3","4","5","6","7","8","9">>

\* t has the form of an identifier.
WellFormed(t) == Len(t) = OidHexLen /\ \A i \in 1..Len(t) : t[i] \in HexChars

\* t names the stored product p: it is p's identifier text, hex case aside.
Names(t, p) == FoldText(t) = OidStr(p._id)

NamesAProduct(t) == \E i \in 1..Len(products) : Names(t, products[i])

PriceOf(t) == products[CHOOSE i \in 1..Len(products) : Names(t, products[i])].price

RECURSIVE DecValue(_, _)
DecValue(t, acc) ==
  IF t = <<>> THEN acc
  ELSE DecValue(Tail(t),
                acc * 10 + ((CHOOSE d \in 1..10 : DecChars[d] = Head(t)) - 1))

\* t is the decimal text of the natural number n.
IsDecimalOf(t, n) ==
  /\ Len(t) >= 1
  /\ \A i \in 1..Len(t) : \E d \in 1..10 : DecChars[d] = t[i]
  /\ (Len(t) > 1) => t[1] # "0"
  /\ DecValue(t, 0) = n

MinusOne == <<"-", "1">>

\* a and b hold the same elements the same number of times.
SameCollection(a, b) ==
  /\ Len(a) = Len(b)
  /\ \A x \in Range(a) \cup Range(b) :
       Cardinality({i \in 1..Len(a) : a[i] = x})
         = Cardinality({i \in 1..Len(b) : b[i] = x})

\* The step just observed is a successful order listing.
IsListing == resp.op = "list_orders" /\ resp.status = 200

\* The orders of user u, and their orderings by created_at descending.
OrdersOf(u) == {o \in Range(orders) : o.userId = u}
ByRecency(u) ==
  {s \in Perms(OrdersOf(u)) :
     \A i, j \in 1..Len(s) : i < j => s[i].created_at >= s[j].created_at}

\* The stored order a returned view stands for.
StoredOrder(view) == CHOOSE o \in Range(orders) : OidStr(o._id) = view.id

\* What every step of create_order_check does and no other step: it answers a
\* create_order request with an error, or suspends one more handler.
CheckStep ==
  \/ resp.op = "none" /\ resp'.op = "create_order" /\ resp'.status # 201
  \/ Len(pending') > Len(pending)

\* ----------------------------------------------------------------------- C1
\* C1: every create_order request whose productIds are all well-formed and
\* name existing products (the same product may be named more than once) is
\* accepted, and the total it stores is the sum over its items of the named
\* product's price times the item's qty.
C1_TotalOfEveryValidOrder ==
  [][ /\ CheckStep => \A order \in OrderInputs :
           ( /\ \A i \in 1..Len(order.items) :
                  /\ WellFormed(order.items[i].productId)
                  /\ NamesAProduct(order.items[i].productId)
             /\ create_order_check(order) )
           => /\ Len(pending') = Len(pending) + 1
              /\ pending'[Len(pending')].total =
                   SumSeq([i \in 1..Len(order.items) |->
                             PriceOf(order.items[i].productId) * order.items[i].qty])
      /\ \A i \in 1..Len(pending) :
           create_order_insert(i) => orders'[Len(orders')].total = pending[i].total
    ]_vars

\* ----------------------------------------------------------------------- C2
\* C2: a create_order request with a malformed productId ends in 400 without
\* any store access, one whose productIds are well-formed but with one that
\* names no product ends in 404; in both cases no order is inserted and none
\* is left to be inserted (so every request that is let through to the insert
\* has items that all name products).
C2_BadIdRejected ==
  [][ /\ (resp.op = "none" /\ resp'.op = "create_order" /\ resp'.status # 201)
          => LET ids == resp'.product_ids_str
                 malformed == \E i \in 1..Len(ids) : ~ WellFormed(ids[i])
                 absent == \E i \in 1..Len(ids) :
                             WellFormed(ids[i]) /\ ~ NamesAProduct(ids[i])
             IN (malformed \/ absent)
                => /\ resp'.status = IF malformed THEN 400 ELSE 404
                   /\ malformed => resp'.calls = <<>>
                   /\ orders' = orders
                   /\ pending' = pending
      /\ Len(pending') > Len(pending)
          => \A i \in 1..Len(pending'[Len(pending')].items) :
               \E p \in Range(products) :
                 p._id = pending'[Len(pending')].items[i].productId
    ]_vars

\* A request was answered 404 while products and orders exist.
C2_Witness ==
  /\ resp.op = "create_order"
  /\ resp.status = 404
  /\ resp.calls = <<"products.find">>
  /\ Len(products) >= 1
  /\ Len(orders) >= 1

\* ----------------------------------------------------------------------- C3
\* C3: a listing for user u with limit L and offset k returns at most L views,
\* no id twice, every one an order of u that lies in positions k+1 .. k+L of
\* an ordering of u's orders by created_at descending (positions count
\* orders, not items).
C3_WindowOfOrders ==
  IsListing =>
    LET data == resp.content.data
        L == resp.req.limit
        k == resp.req.offset
    IN /\ Len(data) <= L
       /\ \A i, j \in 1..Len(data) : data[i].id = data[j].id => i = j
       /\ \A i \in 1..Len(data) :
            \E o \in OrdersOf(resp.req.user_id) : OidStr(o._id) = data[i].id
       /\ \E s \in ByRecency(resp.req.user_id) :
            \A i \in 1..Len(data) :
              \E pos \in (k + 1)..Min(k + L, Len(s)) : OidStr(s[pos]._id) = data[i].id

\* The second page of one order, holding an order of two items.
C3_Witness ==
  /\ IsListing
  /\ resp.req.offset = 1
  /\ resp.req.limit = 1
  /\ Len(resp.content.data) = 1
  /\ Len(StoredOrder(resp.content.data[1]).items) = 2

\* ----------------------------------------------------------------------- C4
\* C4: the views of a listing are in created_at descending order: of two
\* returned orders with different created_at the later one comes first.
C4_DataByRecency ==
  IsListing =>
    \A i, j \in 1..Len(resp.content.data) :
      i < j => StoredOrder(resp.content.data[i]).created_at
                 >= StoredOrder(resp.content.data[j]).created_at

\* ----------------------------------------------------------------------- C5
\* C5: a listing with limit L and offset k that returns n views has
\* page.limit = n, page.next = the decimal text of k + n, and page.previous =
\* the decimal text of k - L when k - L >= 0, else "-1".
C5_PageMetadata ==
  IsListing =>
    LET n == Len(resp.content.data)
        L == resp.req.limit
        k == resp.req.offset
        page == resp.content.page
    IN /\ page.limit = n
       /\ IsDecimalOf(page.next, k + n)
       /\ IF k - L >= 0 THEN IsDecimalOf(page.previous, k - L)
                        ELSE page.previous = MinusOne

\* A listing with a previous page that returned fewer views than asked for.
C5_Witness ==
  /\ IsListing
  /\ resp.req.offset - resp.req.limit >= 0
  /\ Len(resp.content.data) < resp.req.limit
  /\ OrdersOf(resp.req.user_id) # {}

\* ----------------------------------------------------------------------- C6
\* C6: a listing with offset 0 for a user without orders returns data = [],
\* page.limit = 0, page.next = "0" and page.previous = "-1".
C6_NoOrdersEmptyPage ==
  (IsListing /\ resp.req.offset = 0 /\ OrdersOf(resp.req.user_id) = {})
    => /\ resp.content.data = <<>>
       /\ resp.content.page = [limit |-> 0, next |-> <<"0">>, previous |-> MinusOne]

\* Such a listing, with limit 2, while another user has an order with items.
C6_Witness ==
  /\ IsListing
  /\ resp.req.offset = 0
  /\ resp.req.limit = 2
  /\ OrdersOf(resp.req.user_id) = {}
  /\ \E o \in Range(orders) : o.items # <<>>

\* ----------------------------------------------------------------------- C7
\* C7: the same listing repeated with no write in between returns the same
\* output: the same views in the same sequence and the same page.
C7_RepeatedListing ==
  [][ ( /\ IsListing
        /\ resp'.op = "list_orders"
        /\ resp'.status = 200
        /\ resp'.req = resp.req
        /\ orders' = orders
        /\ products' = products )
      => resp'.content = resp.content
    ]_vars

\* ----------------------------------------------------------------------- C8
\* C8: in every state reached through the API, under every interleaving,
\* every item of every persisted order names a product of the products
\* collection.
C8_ItemsNameProducts ==
  \A o \in Range(orders) :
    \A i \in 1..Len(o.items) :
      \E p \in Range(products) : p._id = o.items[i].productId

\* A product was created while a create_order with items was suspended
\* between its find and its insert, and an order with items is persisted.
C8_Witness ==
  /\ resp.op = "create_product"
  /\ \E i \in 1..Len(pending) : pending[i].items # <<>>
  /\ \E o \in Range(orders) : o.items # <<>>

\* ----------------------------------------------------------------------- C9
\* C9: every returned view has the stored total of its order, and its items
\* are exactly the {qty, productDetails: {id, name}} of those stored items
\* whose product is in the store, with the name the store holds now; an item
\* whose product is gone is dropped, and none is added or repeated.
C9_ViewOfStoredOrder ==
  IsListing =>
    \A v \in 1..Len(resp.content.data) :
      LET view == resp.content.data[v]
          o == StoredOrder(view)
          kept == SelectSeq(o.items,
                            LAMBDA it : \E p \in Range(products) : p._id = it.productId)
          expected ==
            [i \in 1..Len(kept) |->
               LET p == CHOOSE p \in Range(products) : p._id = kept[i].productId
               IN [qty |-> kept[i].qty,
                   productDetails |-> [id |-> OidStr(p._id), name |-> p.name]]]
      IN /\ \E q \in Range(orders) : OidStr(q._id) = view.id
         /\ view.total = o.total
         /\ SameCollection(view.items, expected)

\* A returned view that lost one of its order's two items.
C9_Witness ==
  /\ IsListing
  /\ \E v \in 1..Len(resp.content.data) :
       /\ Len(resp.content.data[v].items) = 1
       /\ Len(StoredOrder(resp.content.data[v]).items) = 2

\* ---------------------------------------------------------------------- C10
\* C10: a listing returns fewer views than its limit only at the end of the
\* result set: when the user has at least offset + limit orders it returns
\* exactly limit views.
C10_FullPages ==
  (IsListing
     /\ Cardinality(OrdersOf(resp.req.user_id)) >= resp.req.offset + resp.req.limit)
    => Len(resp.content.data) = resp.req.limit

====
